---- MODULE Spec2Model ----
(***************************************************************************)
(* RegionPersistentCounter (OCR_suitcase.py): the identity registry, the   *)
(* one-shot region ledger and the frame loop that drives them.             *)
(*                                                                         *)
(* Coordinates.  Boxes are integer pixel boxes <<x1, y1, x2, y2>>.  The    *)
(* sample points of a box include midpoints (x1 + x2) / 2, which Python    *)
(* computes by true division, so points and polygon vertices are kept in   *)
(* HALF-PIXEL units: the pixel (x, y) is the point <<2x, 2y>>.             *)
(*                                                                         *)
(* Steps.  process_video is followed by pc: "read" (top of the while loop),*)
(* "detect" (inside the for loop of process_frame, one step per detection  *)
(* of the tracker's list, revealed in list order), "skip" (the detections  *)
(* that follow one that raised, which the loop never reaches), "show" (the *)
(* counts are drawn, the frame shown, the key read), then "cleanup",       *)
(* "final", "done"; "crashed" when an exception leaves process_video.      *)
(***************************************************************************)
EXTENDS Integers, Sequences, FiniteSets, TLC

\* ------------------------------------------------------------------ bounds
\* Frame-local track ids the tracker may hand out: 1..MaxTrackId.
MaxTrackId == 2
\* Longest detection list of one frame.
MaxDets == 2
\* Pixel coordinates of the boxes of the geometry runs: 0..GridMax.
GridMax == 3

\* ------------------------------------------------------- program constants
\* COCO index of "suitcase", the one class the loop keeps.
SuitcaseClass == 28

\* Faulty variant: the counter starts one too low.
ZeroCustomId == 1 - 1

\* Value of next_custom_id after construction.
FirstCustomId == 1

TrackIds == 1..MaxTrackId
\* Class labels the tracker reports: the suitcase class and one other class.
ClassLabels == {SuitcaseClass, SuitcaseClass + 1}

VARIABLES
    region_polygon1,            \* self.region_polygon1: vertex list, half-pixels
    region_polygon2,            \* self.region_polygon2
    yolo_id_to_custom_id,       \* dict: track id -> stable identity
    next_custom_id,             \* issuance counter
    object_region_assignments,  \* dict: stable identity -> 1 | 2
    pc,                         \* position inside process_video / process_frame
    todo,                       \* detections of the current frame the for loop has not reached yet
    overlay,                    \* counts last drawn by draw_statistics, <<>> before the first frame
    released,                   \* cap / video_writer / windows released
    final_report,               \* counts printed at the end of the run, <<>> until then
    frame,                      \* what the tracker delivered for the frame in progress ("none" between frames)
    \* ---- history of the run, recorded for the properties
    last,                       \* what the for loop did with the detection it handled last in this frame
    issued,                     \* stable identities in the order they were issued
    resolved,                   \* track id -> set of identities line 148 ever returned for it
    offered,                    \* track id -> verdict of the first in-region suitcase detection
                                \* the tracker delivered for it (0: none so far)
    watch,                      \* the track id of the first identity while the frame in progress has not carried it, else 0
    absent                      \* the track id of the first identity if the last completed frame did not carry it, else 0

vars == <<region_polygon1, region_polygon2, yolo_id_to_custom_id, next_custom_id,
          object_region_assignments, pc, todo, overlay, released, final_report,
          frame, last, issued, resolved, offered, watch, absent>>

core == <<yolo_id_to_custom_id, next_custom_id, object_region_assignments>>

\* ---------------------------------------------------------------- geometry
\* Twice the signed area of the triangle a, b, p.
Cross(a, b, p) == (b[1] - a[1]) * (p[2] - a[2]) - (b[2] - a[2]) * (p[1] - a[1])

Min(a, b) == IF a < b THEN a ELSE b
Max(a, b) == IF a < b THEN b ELSE a

\* The i-th edge of a polygon (closing edge included).
EdgeFrom(poly, i) == poly[i]
EdgeTo(poly, i) == poly[(i % Len(poly)) + 1]

\* p lies on the closed segment a-b.
OnSegment(a, b, p) ==
    /\ Cross(a, b, p) = 0
    /\ Min(a[1], b[1]) <= p[1] /\ p[1] <= Max(a[1], b[1])
    /\ Min(a[2], b[2]) <= p[2] /\ p[2] <= Max(a[2], b[2])

OnBoundary(poly, p) ==
    \E i \in 1..Len(poly) : OnSegment(EdgeFrom(poly, i), EdgeTo(poly, i), p)

\* The ray from p towards +x crosses the edge a-b.
RayCrosses(a, b, p) ==
    /\ (a[2] > p[2]) # (b[2] > p[2])
    /\ IF b[2] > a[2] THEN Cross(a, b, p) > 0 ELSE Cross(a, b, p) < 0

\* shapely's Polygon.contains(Point): interior only, the boundary excluded.
PolygonContains(poly, p) ==
    /\ ~OnBoundary(poly, p)
    /\ Cardinality({i \in 1..Len(poly) :
                      RayCrosses(EdgeFrom(poly, i), EdgeTo(poly, i), p)}) % 2 = 1

is_in_region(point_xy, region_polygon) == PolygonContains(region_polygon, point_xy)

\* Faulty variant: the midpoints are truncated to whole pixels.
check_pointsTruncated(box) ==
    LET x1 == box[1]  y1 == box[2]  x2 == box[3]  y2 == box[4]
    IN << <<2 * x2, 2 * y1>>,
          <<2 * x1, 2 * y2>>,
          <<2 * x2, 2 * y2>>,
          <<2 * ((x1 + x2) \div 2), 2 * y2>>,
          <<2 * x1, 2 * ((y1 + y2) \div 2)>>,
          <<2 * x2, 2 * ((y1 + y2) \div 2)>> >>

\* The six sample points of a box, in half-pixels, in the order of the list.
check_points(box) ==
    LET x1 == box[1]  y1 == box[2]  x2 == box[3]  y2 == box[4]
    IN << <<2 * x2, 2 * y1>>,      \* top-right corner
          <<2 * x1, 2 * y2>>,      \* bottom-left corner
          <<2 * x2, 2 * y2>>,      \* bottom-right corner
          <<x1 + x2, 2 * y2>>,     \* bottom midpoint
          <<2 * x1, y1 + y2>>,     \* left midpoint
          <<2 * x2, y1 + y2>> >>   \* right midpoint

\* Faulty variant: Region 2 is tested before Region 1.
RECURSIVE RegionLoopRegion2First(_, _, _, _)
RegionLoopRegion2First(cps, i, poly1, poly2) ==
    IF i > Len(cps) THEN 0
    ELSE IF is_in_region(cps[i], poly2) THEN 2
    ELSE IF is_in_region(cps[i], poly1) THEN 1
    ELSE RegionLoopRegion2First(cps, i + 1, poly1, poly2)

\* Faulty variant: regions outer, points inner (any point in Region 1 wins).
RegionLoopRegionsOuter(cps, i, poly1, poly2) ==
    IF \E k \in i..Len(cps) : is_in_region(cps[k], poly1) THEN 1
    ELSE IF \E k \in i..Len(cps) : is_in_region(cps[k], poly2) THEN 2
    ELSE 0

\* The loop over the sample points: 1 = in_r1, 2 = in_r2, 0 = neither.
RECURSIVE RegionLoop(_, _, _, _)
RegionLoop(cps, i, poly1, poly2) ==
    IF i > Len(cps) THEN 0
    ELSE IF is_in_region(cps[i], poly1) THEN 1
    ELSE IF is_in_region(cps[i], poly2) THEN 2
    ELSE RegionLoop(cps, i + 1, poly1, poly2)

RegionVerdict(box, poly1, poly2) == RegionLoop(check_points(box), 1, poly1, poly2)

\* Region polygons, in half-pixels.  Two separate paths, as in the deployment.
PathsRegion1 == << <<3, -1>>, <<7, -1>>, <<7, 3>>, <<3, 3>> >>
PathsRegion2 == << <<-1, 3>>, <<3, 3>>, <<3, 7>>, <<-1, 7>> >>
\* Overlapping rectangles.
OverlapRegion1 == << <<1, 1>>, <<5, 1>>, <<5, 5>>, <<1, 5>> >>
OverlapRegion2 == << <<3, -1>>, <<7, -1>>, <<7, 7>>, <<3, 7>> >>
\* Two triangles that share the diagonal edge.
SlantRegion1 == << <<-1, -1>>, <<7, -1>>, <<-1, 7>> >>
SlantRegion2 == << <<7, 7>>, <<-1, 7>>, <<7, -1>> >>
\* A non-convex region around a square one.
EllRegion1 == << <<-1, -1>>, <<7, -1>>, <<7, 2>>, <<2, 2>>, <<2, 7>>, <<-1, 7>> >>
EllRegion2 == << <<3, 3>>, <<7, 3>>, <<7, 7>>, <<3, 7>> >>

\* Small cells: Region 1 holds the one sample position (2.5, 1.5), the centre
\* of the box (2,1)-(3,2); Region 2 holds the pixel (0, 0) only.
CellRegion1 == << <<4, 2>>, <<6, 2>>, <<6, 4>>, <<4, 4>> >>
CellRegion2 == << <<-1, -1>>, <<1, -1>>, <<1, 1>>, <<-1, 1>> >>
\* Cells that hold midpoints only: (2.5, 3) and (0, 1.5).
MidRegion1 == << <<4, 5>>, <<6, 5>>, <<6, 7>>, <<4, 7>> >>
MidRegion2 == << <<-1, 2>>, <<1, 2>>, <<1, 4>>, <<-1, 4>> >>

RegionConfigs ==
    { <<PathsRegion1, PathsRegion2>>, <<OverlapRegion1, OverlapRegion2>>,
      <<SlantRegion1, SlantRegion2>>, <<EllRegion1, EllRegion2>>,
      <<CellRegion1, CellRegion2>>, <<MidRegion1, MidRegion2>> }

\* Boxes of the main runs: one whose verdict is Region 1 under the Paths
\* polygons, one whose verdict is Region 2, one that misses both.
BoxInRegion1 == <<2, 0, 3, 1>>
BoxInRegion2 == <<0, 2, 1, 3>>
BoxOutside == <<0, 0, 1, 1>>
MainBoxes == {BoxInRegion1, BoxInRegion2, BoxOutside}

\* Every box x1 < x2, y1 < y2 of the pixel grid.
GridBoxes ==
    {<<x1, y1, x2, y2>> : x1 \in 0..GridMax, y1 \in 0..GridMax,
                          x2 \in 0..GridMax, y2 \in 0..GridMax}
GeomBoxes == {b \in GridBoxes : b[1] < b[3] /\ b[2] < b[4]}

\* RegionVerdict of every box of the runs, tabulated once per pair of polygons.
VerdictTable ==
    [cfg \in RegionConfigs |->
        [box \in GeomBoxes \cup MainBoxes |-> RegionVerdict(box, cfg[1], cfg[2])]]

\* in_r1 / in_r2 after the loop of lines 191-197, for the box of a detection.
VerdictOf(box, poly1, poly2) == VerdictTable[<<poly1, poly2>>][box]

\* The number of is_in_region calls the loop of lines 191-197 makes: per point
\* one call if the point is in Region 1, else two; none after the first hit.
RECURSIVE RegionTests(_, _, _, _)
RegionTests(cps, i, poly1, poly2) ==
    IF i > Len(cps) THEN 0
    ELSE IF is_in_region(cps[i], poly1) THEN 1
    ELSE IF is_in_region(cps[i], poly2) THEN 2
    ELSE 2 + RegionTests(cps, i + 1, poly1, poly2)

TestsTable ==
    [cfg \in RegionConfigs |->
        [box \in GeomBoxes \cup MainBoxes |-> RegionTests(check_points(box), 1, cfg[1], cfg[2])]]

TestsOf(box, poly1, poly2) == TestsTable[<<poly1, poly2>>][box]

\* ------------------------------------------------------- registry and ledger
\* Faulty variant: a new identity at every resolution (the membership test dropped).
ResolveAlwaysFresh(map, next, yolo_id) ==
    [map |-> (yolo_id :> next) @@ map, next |-> next + 1, unique_id |-> next, fresh |-> TRUE]

\* Faulty variant: the counter is not advanced.
ResolveNoIncrement(map, next, yolo_id) ==
    IF yolo_id \notin DOMAIN map
    THEN [map |-> map @@ (yolo_id :> next), next |-> next, unique_id |-> next, fresh |-> TRUE]
    ELSE [map |-> map, next |-> next, unique_id |-> map[yolo_id], fresh |-> FALSE]

\* Lines 145-148: the identity of a track id, issued on first sight.
Resolve(map, next, yolo_id) ==
    IF yolo_id \notin DOMAIN map
    THEN [map |-> map @@ (yolo_id :> next), next |-> next + 1, unique_id |-> next, fresh |-> TRUE]
    ELSE [map |-> map, next |-> next, unique_id |-> map[yolo_id], fresh |-> FALSE]

\* Faulty variant: no short-circuit, every detection is evaluated again.
AlreadyAssignedNever(assign, unique_id) == FALSE

\* Line 151: the short-circuit test.
AlreadyAssigned(assign, unique_id) == unique_id \in DOMAIN assign

\* Faulty variant: the commit replaces the ledger instead of adding to it.
AssignRegionReplace(assign, unique_id, verdict) ==
    IF verdict = 1 THEN (unique_id :> 1)
    ELSE IF verdict = 2 THEN (unique_id :> 2)
    ELSE assign

\* Faulty variant: a miss is committed too, as region 0.
AssignRegionRecordsMiss(assign, unique_id, verdict) == (unique_id :> verdict) @@ assign

\* Lines 200-207: commit the verdict, if any.
AssignRegion(assign, unique_id, verdict) ==
    IF verdict = 1 THEN (unique_id :> 1) @@ assign
    ELSE IF verdict = 2 THEN (unique_id :> 2) @@ assign
    ELSE assign

\* Faulty variant: no class filter.
IsClassOfInterestAny(cls_val) == TRUE

\* Line 141: the class filter.
IsClassOfInterest(cls_val) == cls_val = SuitcaseClass

\* Faulty variant: the "if r == region" filter dropped.
RegionCountAll(assign, region) == Cardinality(DOMAIN assign)

\* Lines 87-88 and 283-284: sum(1 for r in values if r == region).
RegionCount(assign, region) == Cardinality({u \in DOMAIN assign : assign[u] = region})

\* Lines 87-89: the three numbers draw_statistics puts on the frame.
draw_statistics(assign) ==
    LET region1_count == RegionCount(assign, 1)
        region2_count == RegionCount(assign, 2)
        total_count == region1_count + region2_count
    IN <<region1_count, region2_count, total_count>>

\* ------------------------------------------------------------ process_frame
\* The body of the for loop (lines 139-242) for one detection d, on the working
\* state st.  d.bad: the drawing calls of this detection raise (lines 153-176
\* or 210-242), after the registry and the ledger were updated for it.
ProcessDetection(st, d, poly1, poly2) ==
    IF ~IsClassOfInterest(d.cls)
    THEN [st EXCEPT !.path = "filtered"]
    ELSE LET r == Resolve(st.map, st.next, d.id)
             uid == r.unique_id
             st1 == [st EXCEPT
                       !.map = r.map,
                       !.next = r.next,
                       !.issued = IF r.fresh THEN Append(@, uid) ELSE @,
                       !.resolved = [@ EXCEPT ![d.id] = @ \cup {uid}],
                       !.uid = uid,
                       !.raised = d.bad]
         IN IF AlreadyAssigned(st.assign, uid)
            THEN [st1 EXCEPT !.path = "kept"]
            ELSE [st1 EXCEPT
                    !.assign = AssignRegion(@, uid, VerdictOf(d.box, poly1, poly2)),
                    !.tests = TestsOf(d.box, poly1, poly2),
                    !.path = "evaluated"]

\* What the tracker delivered, whether or not the loop gets to it: the verdict
\* of the first suitcase detection of a track id with a sample point in a region.
Offer(off, d, poly1, poly2) ==
    LET verdict == VerdictOf(d.box, poly1, poly2)
    IN IF d.cls = SuitcaseClass /\ off[d.id] = 0 /\ verdict # 0
       THEN [off EXCEPT ![d.id] = verdict] ELSE off

\* The working state of the loop body, from the variables.
Before ==
    [map |-> yolo_id_to_custom_id, next |-> next_custom_id,
     assign |-> object_region_assignments,
     issued |-> issued, resolved |-> resolved,
     uid |-> 0, path |-> "none", tests |-> 0, raised |-> FALSE]

\* ------------------------------------------------------------------ inputs
Detections ==
    [box : MainBoxes, cls : {SuitcaseClass}, id : TrackIds, bad : {FALSE}]
    \cup [box : {BoxInRegion1}, cls : {SuitcaseClass}, id : TrackIds, bad : {TRUE}]
    \cup [box : {BoxInRegion1}, cls : ClassLabels \ {SuitcaseClass}, id : TrackIds, bad : {FALSE}]

\* One tracked suitcase, anywhere on the grid.
GeomDetections ==
    [box : GeomBoxes, cls : {SuitcaseClass}, id : {1}, bad : {FALSE}]

NoStep ==
    [path |-> "none", box |-> << >>, cls |-> SuitcaseClass, id |-> 0, uid |-> 0,
     tests |-> 0, raised |-> FALSE]

\* What a tracker result can be, once model.track has returned and the class
\* labels were converted:
\*   "empty"     no results / no boxes                     (line 121 false)
\*   "no_ids"    boxes.id is None                          (line 133 false)
\*   "cls_none"  boxes.cls is None: line 136 raises inside the try, caught at 243
\*   "tracked"   boxes, classes and track ids delivered
FrameKinds == {"empty", "no_ids", "cls_none", "tracked"}

\* Faulty variant: a frame without track ids goes through the loop as well.
EntersLoopWithoutIds(kind) == kind \in {"tracked", "no_ids"}

\* Lines 121 and 133-137: the for loop is reached.
EntersLoop(kind) == kind = "tracked"

\* The track id that holds the first identity issued, 0 if none does.
FirstTrack ==
    IF \E t \in DOMAIN yolo_id_to_custom_id : yolo_id_to_custom_id[t] = FirstCustomId
    THEN CHOOSE t \in DOMAIN yolo_id_to_custom_id : yolo_id_to_custom_id[t] = FirstCustomId
    ELSE 0

\* ------------------------------------------------------------ process_video
\* The state after __init__ (lines 45-50), for the given region polygons.
InitWith(poly1, poly2) ==
    /\ region_polygon1 = poly1
    /\ region_polygon2 = poly2
    /\ yolo_id_to_custom_id = << >>
    /\ next_custom_id = FirstCustomId
    /\ object_region_assignments = << >>
    /\ pc = "read"
    /\ todo = 0
    /\ overlay = << >>
    /\ released = FALSE
    /\ final_report = << >>
    /\ last = NoStep
    /\ frame = "none"
    /\ issued = << >>
    /\ resolved = [t \in TrackIds |-> {}]
    /\ offered = [t \in TrackIds |-> 0]
    /\ watch = 0
    /\ absent = 0

Init == InitWith(PathsRegion1, PathsRegion2)

InitGeom == \E cfg \in RegionConfigs : InitWith(cfg[1], cfg[2])

\* cap.read() fails: end of the stream (lines 259-262).
EndOfStream ==
    /\ pc = "read"
    /\ pc' = "cleanup"
    /\ UNCHANGED <<region_polygon1, region_polygon2, core, todo, overlay, released,
                   final_report, frame, last, issued, resolved, offered, watch, absent>>

\* A frame is read and model.track (line 115) or the conversion of boxes.cls
\* (line 124) raises: both are outside the try of line 134, so the exception
\* leaves process_frame and process_video.
TrackerRaises ==
    /\ pc = "read"
    /\ pc' = "crashed"
    /\ frame' \in {"track_raises", "cls_malformed"}
    /\ UNCHANGED <<region_polygon1, region_polygon2, core, todo, overlay, released,
                   final_report, last, issued, resolved, offered, watch, absent>>

\* A frame is read and the for loop is not entered (kind "empty", "no_ids" or
\* "cls_none"); for "cls_none" the exception of line 136 is caught and logged.
NoLoop(kind) ==
    /\ pc = "read"
    /\ ~EntersLoop(kind)
    /\ pc' = "show"
    /\ frame' = kind
    /\ last' = [NoStep EXCEPT !.path = kind, !.raised = (kind = "cls_none")]
    /\ watch' = FirstTrack
    /\ UNCHANGED <<region_polygon1, region_polygon2, core, todo, overlay, released,
                   final_report, issued, resolved, offered, absent>>

\* A frame is read and the tracker delivers n detections with classes and ids:
\* the for loop of line 139 starts.
EnterLoop(n) ==
    /\ pc = "read"
    /\ \E kind \in FrameKinds \ {"empty"} : EntersLoop(kind) /\ frame' = kind
    /\ pc' = "detect"
    /\ todo' = n
    /\ watch' = FirstTrack
    /\ UNCHANGED <<region_polygon1, region_polygon2, core, overlay, released,
                   final_report, last, issued, resolved, offered, absent>>

\* One iteration of the for loop on the next detection d of the list.  An
\* exception is caught by line 243, which ends the loop.
Detect(d) ==
    /\ pc = "detect"
    /\ \E st \in {ProcessDetection(Before, d, region_polygon1, region_polygon2)} :
          /\ yolo_id_to_custom_id' = st.map
          /\ next_custom_id' = st.next
          /\ object_region_assignments' = st.assign
          /\ issued' = st.issued
          /\ resolved' = st.resolved
          /\ last' = [path |-> st.path, box |-> d.box, cls |-> d.cls, id |-> d.id,
                       uid |-> st.uid, tests |-> st.tests, raised |-> st.raised]
          /\ pc' = IF todo = 1 THEN "show" ELSE IF st.raised THEN "skip" ELSE "detect"
    /\ todo' = todo - 1
    /\ offered' = Offer(offered, d, region_polygon1, region_polygon2)
    /\ watch' = IF d.id = watch THEN 0 ELSE watch
    /\ UNCHANGED <<region_polygon1, region_polygon2, overlay, released, final_report,
                   frame, absent>>

\* A detection of the list that follows the one that raised: never looked at.
Skip(d) ==
    /\ pc = "skip"
    /\ pc' = IF todo = 1 THEN "show" ELSE "skip"
    /\ todo' = todo - 1
    /\ last' = [NoStep EXCEPT !.path = "skipped", !.box = d.box, !.cls = d.cls,
                               !.id = d.id, !.raised = TRUE]
    /\ offered' = Offer(offered, d, region_polygon1, region_polygon2)
    /\ watch' = IF d.id = watch THEN 0 ELSE watch
    /\ UNCHANGED <<region_polygon1, region_polygon2, core, overlay, released,
                   final_report, frame, issued, resolved, absent>>

\* The end of process_frame and of the loop body of process_video: the counts
\* are drawn (line 251), the frame is shown and written, the key is read
\* (lines 271-275).
Show(quit) ==
    /\ pc = "show"
    /\ overlay' = draw_statistics(object_region_assignments)
    /\ pc' = IF quit THEN "cleanup" ELSE "read"
    /\ last' = NoStep
    /\ frame' = "none"
    /\ absent' = watch
    /\ watch' = 0
    /\ UNCHANGED <<region_polygon1, region_polygon2, core, todo, released,
                   final_report, issued, resolved, offered>>

\* Faulty variant: nothing is released.
CleanupNoRelease ==
    /\ pc = "cleanup"
    /\ pc' = "final"
    /\ UNCHANGED <<region_polygon1, region_polygon2, core, todo, overlay, released,
                   final_report, frame, last, issued, resolved, offered, watch, absent>>

\* Lines 278-280: release the capture, the writer and the windows.
Cleanup ==
    /\ pc = "cleanup"
    /\ pc' = "final"
    /\ released' = TRUE
    /\ UNCHANGED <<region_polygon1, region_polygon2, core, todo, overlay,
                   final_report, frame, last, issued, resolved, offered, watch, absent>>

\* Lines 283-290: the final counts, printed.
FinalCounts ==
    /\ pc = "final"
    /\ pc' = "done"
    /\ final_report' = draw_statistics(object_region_assignments)
    /\ UNCHANGED <<region_polygon1, region_polygon2, core, todo, overlay, released,
                   frame, last, issued, resolved, offered, watch, absent>>

Frame ==
    \/ \E kind \in FrameKinds : NoLoop(kind)
    \/ \E n \in 1..MaxDets : EnterLoop(n)
    \/ TrackerRaises
    \/ EndOfStream
    \/ \E quit \in BOOLEAN : Show(quit)
    \/ Cleanup
    \/ FinalCounts

Next ==
    \/ Frame
    \/ \E d \in Detections : Detect(d)
    \/ \E d \in Detections : Skip(d)

Spec == Init /\ [][Next]_vars

NextGeom ==
    \/ Frame
    \/ \E d \in GeomDetections : Detect(d)

SpecGeom == InitGeom /\ [][NextGeom]_vars

\* ============================================================== properties
\* Shorthands for the properties.
Ledger == object_region_assignments
Registry == yolo_id_to_custom_id
Counted(assign) == RegionCount(assign, 1) + RegionCount(assign, 2)
BetweenFrames == pc \in {"read", "cleanup", "final", "done", "crashed"}

\* The loop just handled a suitcase detection (it was not filtered or skipped).
Handled == last.path \in {"kept", "evaluated"}

\* The six-point verdict of the box of the detection handled last.
LastVerdict == VerdictOf(last.box, region_polygon1, region_polygon2)

\* The region recorded for the identity of the detection handled last, 0 if none.
LastRecorded == IF last.uid \in DOMAIN Ledger THEN Ledger[last.uid] ELSE 0

\* The sample points of the detection handled last that lie in some region, by
\* their position 1..6 in the list, and the first of them.
InR1(k) == is_in_region(check_points(last.box)[k], region_polygon1)
InR2(k) == is_in_region(check_points(last.box)[k], region_polygon2)
Hits == {k \in 1..6 : InR1(k) \/ InR2(k)}
FirstHit == CHOOSE k \in Hits : \A j \in Hits : k <= j

\* ---------------------------------------------------------------------- C1
\* C1 (permanence): an entry of object_region_assignments is never changed and
\* never removed by any later step, whatever the later detections carry.
C1_Permanence ==
    [][\A u \in DOMAIN Ledger : u \in DOMAIN Ledger' /\ Ledger'[u] = Ledger[u]]_vars

\* An assigned identity is detected again at a box whose six-point verdict is
\* not the recorded region, and the recorded region stands.
C1_Witness ==
    /\ last.path = "kept"
    /\ LastRecorded # 0
    /\ LastVerdict # LastRecorded

\* ---------------------------------------------------------------------- C2
\* C2 (first-entry assignment), as claimed: the region recorded for an identity
\* is the six-point verdict of the earliest detection of its track id that the
\* tracker delivered (suitcase class, with a track id) with a sample point
\* inside Region 1 or Region 2.
C2_FirstEntry ==
    \A t \in DOMAIN Registry :
        Registry[t] \in DOMAIN Ledger => Ledger[Registry[t]] = offered[t]

\* ---------------------------------------------------------------------- C3
\* C3 (idempotent resolution): every resolution of a track id returns one and
\* the same identity, the one the registry holds for it, and the counter has
\* advanced once per track id ever resolved.
C3_IdempotentResolve ==
    /\ \A t \in TrackIds :
          resolved[t] # {} => t \in DOMAIN Registry /\ resolved[t] = {Registry[t]}
    /\ next_custom_id = 1 + Cardinality({t \in TrackIds : resolved[t] # {}})

\* A track id is resolved again after a younger identity was issued to another.
C3_Witness ==
    /\ Handled
    /\ last.uid + 1 < next_custom_id
    /\ \E t \in DOMAIN Registry : Registry[t] > last.uid

\* ---------------------------------------------------------------------- C4
\* C4 (monotonic issuance): the identities issued are strictly increasing in
\* issuance order, the first is 1, and no value is held by two track ids.
C4_MonotonicIssuance ==
    /\ Len(issued) > 0 => issued[1] = 1
    /\ \A i, j \in 1..Len(issued) : i < j => issued[i] < issued[j]
    /\ \A t1, t2 \in DOMAIN Registry : Registry[t1] = Registry[t2] => t1 = t2

\* At least two identities were issued.
C4_Witness == Len(issued) >= 2 /\ Cardinality(DOMAIN Registry) >= 2

\* ---------------------------------------------------------------------- C5
\* C5 (priority tie-break): when the first sample point of an evaluated
\* detection that lies in any region lies in both, Region 1 is recorded.
C5_TieBreak ==
    (last.path = "evaluated" /\ Hits # {} /\ InR1(FirstHit) /\ InR2(FirstHit))
        => LastRecorded = 1

\* Such a detection was evaluated, on overlapping polygons.
C5_Witness ==
    /\ last.path = "evaluated"
    /\ Hits # {}
    /\ InR1(FirstHit) /\ InR2(FirstHit)
    /\ LastRecorded = 1

\* ---------------------------------------------------------------------- C6
\* C6 (points outer, regions inner): an evaluated detection is recorded the
\* region of its first sample point, in list order, that lies in a region
\* (Region 1 if that point is in Region 1, else Region 2), and stays
\* unassigned if there is none; later points do not count.
C6_FirstPointDecides ==
    last.path = "evaluated" =>
        LastRecorded = IF Hits = {} THEN 0 ELSE IF InR1(FirstHit) THEN 1 ELSE 2

\* The first point in a region is in Region 2 only, a later point is in Region 1,
\* and Region 2 is recorded.
C6_Witness ==
    /\ last.path = "evaluated"
    /\ Hits # {}
    /\ ~InR1(FirstHit)
    /\ \E k \in Hits : k > FirstHit /\ InR1(k)
    /\ LastRecorded = 2

\* ---------------------------------------------------------------------- C7
\* C7 (count consistency): the counts drawn after a frame and the counts
\* printed at the end of the run satisfy region1 + region2 = total = number of
\* identities in object_region_assignments.
C7_CountConsistency ==
    /\ (BetweenFrames /\ overlay # << >>) =>
          /\ overlay[1] + overlay[2] = overlay[3]
          /\ overlay[3] = Cardinality(DOMAIN Ledger)
    /\ final_report # << >> =>
          /\ final_report[1] + final_report[2] = final_report[3]
          /\ final_report[3] = Cardinality(DOMAIN Ledger)

\* Both regions have been credited and the counts were drawn and printed.
C7_Witness ==
    /\ pc = "done"
    /\ overlay # << >> /\ overlay[1] >= 1 /\ overlay[2] >= 1
    /\ final_report = overlay

\* ---------------------------------------------------------------------- C8
\* C8 (counted exactly once): no step lowers a region count; the sum of the
\* counts grows by exactly the number of identities newly entered in the
\* ledger, so an identity adds 1 once and nothing afterwards; and the counts
\* drawn never go down from one frame to the next.
C8_CountedOnce ==
    [][ /\ RegionCount(Ledger', 1) >= RegionCount(Ledger, 1)
        /\ RegionCount(Ledger', 2) >= RegionCount(Ledger, 2)
        /\ Counted(Ledger') - Counted(Ledger) = Cardinality(DOMAIN Ledger' \ DOMAIN Ledger)
        /\ (overlay # << >> /\ overlay' # << >>) =>
              overlay'[1] >= overlay[1] /\ overlay'[2] >= overlay[2] ]_vars

\* A counted identity is detected again after it left both regions, and the
\* counts drawn before are the counts of the ledger still.
C8_Witness ==
    /\ last.path = "kept"
    /\ LastVerdict = 0
    /\ overlay # << >>
    /\ overlay[3] = Counted(Ledger)
    /\ overlay[3] >= 1

\* ---------------------------------------------------------------------- C9
\* C9: the sum of the per-region counts is at most the number of identities
\* issued so far, next_custom_id - 1.
C9_CountsWithinIssued == Counted(Ledger) <= next_custom_id - 1

\* Identities were counted, and one issued identity is not counted.
C9_Witness == Counted(Ledger) >= 1 /\ Counted(Ledger) < next_custom_id - 1

\* --------------------------------------------------------------------- C10
\* C10 (class filter): an iteration of the loop on a detection of another class
\* leaves yolo_id_to_custom_id, next_custom_id and object_region_assignments
\* as they were.
C10_ClassFilter ==
    [][(pc = "detect" /\ last'.cls # SuitcaseClass) => UNCHANGED core]_vars

\* A detection of another class, with a box inside a region and a track id the
\* registry does not know, went through the loop.
C10_Witness ==
    /\ last.path = "filtered"
    /\ last.cls # SuitcaseClass
    /\ LastVerdict # 0
    /\ Registry = << >>
    /\ next_custom_id = 1

\* C11: detections that carry no frame-local track id are skipped.  In a frame
\* whose tracker result has no track ids no step resolves an identity or makes
\* an assignment: the registry, the counter and the ledger stay as they were.
C11_NoTrackIdSkipped ==
    [][(frame = "no_ids" \/ frame' = "no_ids")
         => /\ UNCHANGED core
            /\ issued' = issued
            /\ resolved' = resolved]_vars

\* A frame without track ids was read while an identity was still unassigned.
C11_Witness ==
    /\ frame = "no_ids"
    /\ pc = "show"
    /\ \E t \in DOMAIN Registry : Registry[t] \notin DOMAIN Ledger

\* C12: per-frame error isolation.  An exception raised while the tracker output
\* of a frame is interpreted (its class labels, boxes or track ids) is caught
\* inside process_frame: it never ends process_video.
C12_ErrorIsolation ==
    (frame \in {"cls_none", "cls_malformed"} \/ last.raised) => pc # "crashed"

\* C13: when the handling of one detection raises, only that detection is
\* skipped: every other class-of-interest detection of the frame, the later
\* ones included, is still resolved and evaluated, so no suitcase detection the
\* tracker delivered is left unvisited by the loop.
C13_OnlyAffectedSkipped ==
    ~(last.path = "skipped" /\ last.cls = SuitcaseClass)

\* --------------------------------------------------------------------- C14
\* C14 (hard short-circuit): a loop iteration on a detection whose identity
\* already has an assignment calls is_in_region not once and writes nothing to
\* object_region_assignments, in the frame of the assignment and in every later
\* frame.
C14_ShortCircuit ==
    [][(/\ pc = "detect"
        /\ last'.cls = SuitcaseClass
        /\ last'.id \in DOMAIN Registry
        /\ Registry[last'.id] \in DOMAIN Ledger)
         => (last'.tests = 0 /\ Ledger' = Ledger)]_vars

\* An assigned identity was detected again at a box with a sample point in a
\* region, and no point of it was tested.
C14_Witness ==
    /\ last.path = "kept"
    /\ last.tests = 0
    /\ LastVerdict # 0
    /\ last.uid \in DOMAIN Ledger

\* --------------------------------------------------------------------- C15
\* C15 (retry policy): an identity that is tracked and still unassigned is
\* tested again in each later frame in which it is detected, and is assigned in
\* that frame if a sample point of the detection lies in a region: after a
\* suitcase detection of a registered track id with such a point was delivered,
\* the identity of that track id has an assignment.
C15_Retry ==
    (/\ last.path \in {"kept", "evaluated", "skipped"}
     /\ last.cls = SuitcaseClass
     /\ last.id \in DOMAIN Registry
     /\ LastVerdict # 0)
        => Registry[last.id] \in DOMAIN Ledger

\* --------------------------------------------------------------------- C16
\* C16 (injective registry): two distinct track ids held by
\* yolo_id_to_custom_id never map to the same identity.
C16_InjectiveRegistry ==
    \A t1 \in DOMAIN Registry : \A t2 \in DOMAIN Registry \ {t1} :
        Registry[t1] # Registry[t2]

\* Every track id of the model is registered.
C16_Witness == DOMAIN Registry = TrackIds /\ Cardinality(TrackIds) >= 2

\* --------------------------------------------------------------------- C17
\* C17 (reused track id): a loop iteration on a suitcase detection whose track
\* id is already registered, after however many frames without it, resolves it
\* to the identity the registry holds, issues no identity, and, if that
\* identity is assigned, leaves the ledger and so every count as it was.
C17_ReusedTrackId ==
    [][(/\ pc = "detect"
        /\ last'.cls = SuitcaseClass
        /\ last'.id \in DOMAIN Registry)
         => /\ last'.uid = Registry[last'.id]
            /\ Registry' = Registry
            /\ next_custom_id' = next_custom_id
            /\ issued' = issued
            /\ (Registry[last'.id] \in DOMAIN Ledger
                  => /\ Ledger' = Ledger
                     /\ draw_statistics(Ledger') = draw_statistics(Ledger))]_vars

\* The track id of the first identity was missing from the frame before, comes
\* back at a box of another region than the one recorded, and keeps its region.
C17_Witness ==
    /\ absent # 0
    /\ last.id = absent
    /\ last.path = "kept"
    /\ last.uid = FirstCustomId
    /\ LastVerdict # 0
    /\ LastVerdict # LastRecorded

\* --------------------------------------------------------------------- C19
\* C19 (well-formedness): every key of object_region_assignments is an issued
\* identity, a value of yolo_id_to_custom_id between 1 and next_custom_id - 1,
\* and every value is 1 or 2.
C19_WellFormed ==
    \A u \in DOMAIN Ledger :
        /\ u \in 1..(next_custom_id - 1)
        /\ \E t \in DOMAIN Registry : Registry[t] = u
        /\ Ledger[u] \in {1, 2}

\* Both regions are recorded, for two identities.
C19_Witness ==
    /\ \E u \in DOMAIN Ledger : Ledger[u] = 1
    /\ \E u \in DOMAIN Ledger : Ledger[u] = 2

\* --------------------------------------------------------------------- C18
\* The six positions the claim names for a box, in half-pixels, with exact
\* midpoints; the two positions it excludes; and membership in some region.
SamplePoints(box) ==
    LET x1 == box[1]  y1 == box[2]  x2 == box[3]  y2 == box[4]
    IN { <<2 * x2, 2 * y1>>, <<2 * x1, 2 * y2>>, <<2 * x2, 2 * y2>>,
         <<x1 + x2, 2 * y2>>, <<2 * x1, y1 + y2>>, <<2 * x2, y1 + y2>> }
TopLeft(box) == <<2 * box[1], 2 * box[2]>>
Centre(box) == <<box[1] + box[3], box[2] + box[4]>>
InSomeRegion(p) == is_in_region(p, region_polygon1) \/ is_in_region(p, region_polygon2)

\* C18 (sample-point set): an evaluated detection is assigned exactly when one
\* of the points (x2,y1), (x1,y2), (x2,y2), ((x1+x2)/2,y2), (x1,(y1+y2)/2),
\* (x2,(y1+y2)/2), midpoints not truncated, lies in a region; the top-left
\* corner and the centre of the box play no part.
C18_SamplePoints ==
    last.path = "evaluated"
        => (LastRecorded # 0 <=> \E p \in SamplePoints(last.box) : InSomeRegion(p))

\* The centre of the box is in a region, none of the six points is, and the
\* detection stays unassigned.
C18_Witness ==
    /\ last.path = "evaluated"
    /\ InSomeRegion(Centre(last.box))
    /\ \A p \in SamplePoints(last.box) : ~InSomeRegion(p)
    /\ LastRecorded = 0

\* --------------------------------------------------------------------- C20
\* C20 (end-of-run report), as claimed: the final report happens before the
\* capture, the writer and the windows are torn down, so once they are
\* released the report has been made.
C20_ReportBeforeTeardown == released => final_report # << >>

\* C20, amended: when the run stops on the end of the stream or the quit key,
\* the capture, the writer and the windows are released first and the report
\* follows; the report is the three aggregate counts (Region 1, Region 2,
\* total) of the ledger and carries no per-identity assignment.
C20_ReportAfterTeardown ==
    /\ final_report # << >>
         => /\ released
            /\ pc = "done"
            /\ final_report = <<Cardinality({u \in DOMAIN Ledger : Ledger[u] = 1}),
                                Cardinality({u \in DOMAIN Ledger : Ledger[u] = 2}),
                                Cardinality(DOMAIN Ledger)>>
    /\ pc = "done" => final_report # << >>
    /\ released <=> pc \in {"final", "done"}

\* The run ended with the resources released and a report of both regions.
C20_Witness ==
    /\ pc = "done"
    /\ released
    /\ final_report # << >>
    /\ final_report[1] >= 1 /\ final_report[2] >= 1
    /\ final_report[3] = Cardinality(DOMAIN Ledger)

============================================================================
